---- MODULE Spec2Model ----
(***************************************************************************)
(* The sled-backed graph store of indradb: the managers of                 *)
(* src/managers.rs over the six trees of the SledHolder, at the            *)
(* granularity of single KV operations.                                    *)
(***************************************************************************)
EXTENDS Integers, Sequences, FiniteSets, TLC

(* ------------------------------ bounds --------------------------------- *)

\* how many vertex ids the callers draw from
NumUuids == 2
\* how many distinct update datetimes the callers draw from
NumDateTimes == 2
\* how many manager calls one behaviour makes (Spec, SpecErr)
MaxCalls == 3
\* how many manager calls one behaviour makes (SpecRange)
MaxRangeCalls == 4
\* how many KV failures or crashes one behaviour suffers (SpecErr)
MaxFaults == 1
\* the number of calls a caller of the property managers makes
MaxPropCalls == 3
\* the bytes of a UUID in the model's keys (16 in the program)
UuidLen == 2
\* the bytes of a DateTime in the model's keys (8 in the program)
DateTimeLen == 2

(* --------------------------- the key codec ----------------------------- *)

\* the radix of one byte
ByteRadix == 256
\* the largest instant a DateTime component encodes
MAX_DATETIME == ByteRadix ^ DateTimeLen - 1
\* the smallest instant
MIN_DATETIME == 0
\* the spacing of the callers' datetimes: successive values differ in
\* more than one byte of their encoding
DateTimeStep == 255

Uuids == 1..NumUuids
\* the types "a" and "ab" (one a string prefix of the other)
Types == {<<97>>, <<97, 98>>}
DateTimes == {k * DateTimeStep : k \in 1..NumDateTimes}
\* the property name "k"
Names == {<<107>>}
\* the JSON numbers 7 and 42
JsonValues == {7, 42}

\* an Option<T> is the set of its values: None is empty, Some(x) holds x
None == {}
Some(x) == {x}
unwrap(opt) == CHOOSE x \in opt : TRUE
\* the end of an iteration (no key is empty)
NoItem == <<>>

RECURSIVE BigEndian(_, _)
\* n as len bytes, most significant first
BigEndian(n, len) ==
    IF len = 0 THEN <<>>
    ELSE Append(BigEndian(n \div ByteRadix, len - 1), n % ByteRadix)

RECURSIVE FromBigEndian(_)
FromBigEndian(bytes) ==
    IF bytes = <<>> THEN 0
    ELSE FromBigEndian(SubSeq(bytes, 1, Len(bytes) - 1)) * ByteRadix
         + bytes[Len(bytes)]

\* util::Component::Uuid: the raw bytes of the id
ComponentUuid(id) == BigEndian(id, UuidLen)

\* util::Component::Type: one length byte, then the bytes
ComponentType(t) == <<Len(t)>> \o t

\* util::Component::FixedLengthString: one length byte, then the bytes
ComponentFixedLengthString(s) == <<Len(s)>> \o s

\* util::Component::DateTime: the instant as bytes, big-endian, so that
\* byte order is chronological order
ComponentDateTime(d) == BigEndian(d, DateTimeLen)

RECURSIVE build(_)
\* util::build: the components appended to one buffer
build(components) ==
    IF components = <<>> THEN <<>>
    ELSE Head(components) \o build(Tail(components))

\* the readers of a cursor: the value read at position pos of bytes
read_uuid(bytes, pos) == FromBigEndian(SubSeq(bytes, pos, pos + UuidLen - 1))
read_type(bytes, pos) == SubSeq(bytes, pos + 1, pos + bytes[pos])
read_fixed_length_string(bytes, pos) == SubSeq(bytes, pos + 1, pos + bytes[pos])
read_datetime(bytes, pos) ==
    FromBigEndian(SubSeq(bytes, pos, pos + DateTimeLen - 1))

RECURSIVE Digits(_)
Digits(n) == IF n < 10 THEN <<48 + n>> ELSE Append(Digits(n \div 10), 48 + (n % 10))

\* serde_json::to_vec of a JSON number: its decimal digits
to_vec(value) == Digits(value)

RECURSIVE from_slice(_)
\* serde_json::from_slice of the digits of a JSON number
from_slice(bytes) ==
    IF bytes = <<>> THEN 0
    ELSE from_slice(SubSeq(bytes, 1, Len(bytes) - 1)) * 10
         + (bytes[Len(bytes)] - 48)

(* ---------------------------- the KV store ----------------------------- *)

\* a tree is a function from its keys to their values
EmptyTree == [k \in {} |-> <<>>]

Min(a, b) == IF a <= b THEN a ELSE b

\* byte-lexicographic order of keys
LexLeq(a, b) ==
    \/ \E j \in 1..Min(Len(a), Len(b)) :
          /\ \A q \in 1..(j - 1) : a[q] = b[q]
          /\ a[j] < b[j]
    \/ /\ Len(a) <= Len(b)
       /\ \A q \in 1..Len(a) : a[q] = b[q]

\* slice::starts_with
starts_with(k, prefix) ==
    /\ Len(prefix) <= Len(k)
    /\ \A q \in 1..Len(prefix) : k[q] = prefix[q]

\* Tree::get: Some(value) of key k, or None
tree_get(tree, k) == IF k \in DOMAIN tree THEN Some(tree[k]) ELSE None

\* Tree::insert
tree_insert(tree, k, v) ==
    [x \in DOMAIN tree \cup {k} |-> IF x = k THEN v ELSE tree[x]]

\* Tree::remove
tree_remove(tree, k) == [x \in DOMAIN tree \ {k} |-> tree[x]]

\* Tree::range(low..): an iterator from low, inclusive, with no upper bound
range(low) == [lo |-> low, incl |-> TRUE, within |-> <<>>]

\* Tree::scan_prefix(prefix): an iterator over the keys that start with prefix
scan_prefix(prefix) == [lo |-> prefix, incl |-> TRUE, within |-> prefix]

\* Iter::next: the least key of the tree, as it is now, at or after the
\* iterator's position; NoItem when there is none
IterNext(tree, it) ==
    LET cand == {k \in DOMAIN tree :
                    /\ LexLeq(it.lo, k)
                    /\ (it.incl \/ k # it.lo)
                    /\ starts_with(k, it.within)}
    IN  IF cand = {} THEN NoItem
        ELSE CHOOSE k \in cand : \A k2 \in cand : LexLeq(k, k2)

\* the iterator after it has returned key k
IterAfter(it, k) == [it EXCEPT !.lo = k, !.incl = FALSE]

(* ------------------------------ the keys ------------------------------- *)

\* VertexManager::key
VertexManager_key(id) == build(<<ComponentUuid(id)>>)

\* EdgeManager::key
EdgeManager_key(outbound_id, t, inbound_id) ==
    build(<<ComponentUuid(outbound_id), ComponentType(t),
            ComponentUuid(inbound_id)>>)

\* EdgeRangeManager::key
EdgeRangeManager_key(first_id, t, update_datetime, second_id) ==
    build(<<ComponentUuid(first_id), ComponentType(t),
            ComponentDateTime(update_datetime), ComponentUuid(second_id)>>)

\* a faulty variant of VertexPropertyManager_key that leaves the name out
\* of the key (C15 must fail with it)
VertexPropertyManager_key_without_name(vertex_id, name) ==
    build(<<ComponentUuid(vertex_id)>>)

\* VertexPropertyManager::key
VertexPropertyManager_key(vertex_id, name) ==
    build(<<ComponentUuid(vertex_id), ComponentFixedLengthString(name)>>)

\* EdgePropertyManager::key
EdgePropertyManager_key(outbound_id, t, inbound_id, name) ==
    build(<<ComponentUuid(outbound_id), ComponentType(t),
            ComponentUuid(inbound_id), ComponentFixedLengthString(name)>>)

\* the closure of EdgeRangeManager::iterate: a key of an index tree, decoded
EdgeRangeItem(k) ==
    LET t == read_type(k, UuidLen + 1)
        at == UuidLen + 1 + Len(t) + 1
    IN  [first |-> read_uuid(k, 1), t |-> t,
         d |-> read_datetime(k, at),
         second |-> read_uuid(k, at + DateTimeLen)]

\* the closure of VertexPropertyManager::iterate_for_owner
OwnedPropertyItem(k) ==
    [owner |-> read_uuid(k, 1),
     name |-> read_fixed_length_string(k, UuidLen + 1)]

\* the closure of EdgePropertyManager::iterate_for_owner
EdgePropertyItem(k) ==
    LET t == read_type(k, UuidLen + 1)
        at == UuidLen + 1 + Len(t) + 1
    IN  [o |-> read_uuid(k, 1), t |-> t, i |-> read_uuid(k, at),
         name |-> read_fixed_length_string(k, at + UuidLen)]

\* take_while_prefixed, applied to what the iterator returned: an item whose
\* key starts with the prefix passes; any other item, and an error, end the
\* iteration (the error is dropped)
take_while_prefixed(item, ok, prefix) ==
    IF ok /\ item # NoItem /\ starts_with(item, prefix) THEN item ELSE NoItem

(* ------------------------------ the state ------------------------------ *)

VARIABLES
    holder,      \* the SledHolder: its six trees
    th,          \* per caller thread: where it is in its manager call
    pre,         \* the trees when the thread's call (its first attempt) began
    last,        \* per thread: its latest call, and how it ended
    calls,       \* how many manager calls may still be made
    faults,      \* how many KV failures or crashes may still happen
    mismatched,  \* whether some EdgeManager::delete was given a datetime
                 \* other than the one stored for its edge
    writer       \* the thread of the latest insert into the edges tree

vars == <<holder, th, pre, last, calls, faults, mismatched, writer>>

EmptyHolder ==
    [db |-> EmptyTree, edges |-> EmptyTree, edge_ranges |-> EmptyTree,
     reversed_edge_ranges |-> EmptyTree, vertex_properties |-> EmptyTree,
     edge_properties |-> EmptyTree]

NoIter == [lo |-> <<>>, incl |-> TRUE, within |-> <<>>]
NoEdge == [o |-> 0, t |-> <<>>, i |-> 0, d |-> 0]
NoArgs ==
    [id |-> 0, t |-> <<>>, id2 |-> 0, d |-> 0, name |-> <<>>, val |-> 0,
     topt |-> None, high |-> None, rev |-> FALSE]

\* a thread outside any manager call
Idle ==
    [pc |-> "idle", a |-> NoArgs, it |-> NoIter, item |-> NoItem,
     e |-> NoEdge, old |-> None, eit |-> NoIter, ret |-> "idle"]

NoCall ==
    [op |-> "none", a |-> NoArgs, res |-> "none", failed |-> FALSE,
     retry |-> FALSE, out |-> <<>>]

Init ==
    /\ holder = EmptyHolder
    /\ th = [p \in {1} |-> Idle]
    /\ pre = EmptyHolder
    /\ last = [p \in {1} |-> NoCall]
    /\ calls = MaxCalls
    /\ faults = 0
    /\ mismatched = FALSE
    /\ writer = 0

\* the outcomes of one KV operation: it succeeds, or (while failures remain)
\* the store reports an error
Outcomes == IF faults > 0 THEN {TRUE, FALSE} ELSE {TRUE}

\* the datetime the edges tree holds for an edge
StoredDateTime(h, o, t, i) ==
    LET v == tree_get(h.edges, EdgeManager_key(o, t, i))
    IN  IF v = None THEN None ELSE Some(read_datetime(unwrap(v), 1))

\* a caller enters a manager operation
Invoke(p, op, frame) ==
    /\ th[p].pc = "idle"
    /\ calls > 0
    /\ th' = [th EXCEPT ![p] = frame]
    /\ LET retry == /\ last[p].res \in {"Err", "Crashed"}
                    /\ last[p].op = op
                    /\ last[p].a = frame.a
       IN  /\ last' = [last EXCEPT ![p] =
                          [op |-> op, a |-> frame.a, res |-> "Running",
                           failed |-> FALSE, retry |-> retry, out |-> <<>>]]
           /\ pre' = IF retry THEN pre ELSE holder
    /\ calls' = calls - 1
    /\ mismatched' =
          (mismatched \/
             /\ op = "EdgeManager_delete"
             /\ StoredDateTime(holder, frame.e.o, frame.e.t, frame.e.i)
                   \notin {None, Some(frame.e.d)})
    /\ UNCHANGED <<holder, faults, writer>>

\* the thread goes on to its next step
Goto(p, ok, frame) ==
    /\ th' = [th EXCEPT ![p] = frame]
    /\ last' = [last EXCEPT ![p].failed = @ \/ ~ok]
    /\ faults' = IF ok THEN faults ELSE faults - 1

\* the thread's manager call returns res
Return(p, ok, res, out) ==
    /\ th' = [th EXCEPT ![p] = Idle]
    /\ last' = [last EXCEPT ![p].failed = @ \/ ~ok, ![p].res = res,
                            ![p].out = out]
    /\ faults' = IF ok THEN faults ELSE faults - 1

\* map_err(...)? on a failed KV operation: the call returns the error
Raise(p) == Return(p, FALSE, "Err", <<>>)

(* ---------------------------- VertexManager ---------------------------- *)

CallVertexExists(p) ==
    \E id \in Uuids :
        Invoke(p, "VertexManager_exists",
               [Idle EXCEPT !.pc = "vm_exists", !.a.id = id])

VertexManager_exists(p) ==
    /\ th[p].pc = "vm_exists"
    /\ \E ok \in Outcomes :
         IF ok
         THEN Return(p, ok, "Ok",
                     tree_get(holder.db, VertexManager_key(th[p].a.id)) # None)
         ELSE Raise(p)
    /\ UNCHANGED <<holder, pre, calls, mismatched, writer>>

CallVertexGet(p) ==
    \E id \in Uuids :
        Invoke(p, "VertexManager_get",
               [Idle EXCEPT !.pc = "vm_get", !.a.id = id])

VertexManager_get(p) ==
    /\ th[p].pc = "vm_get"
    /\ \E ok \in Outcomes :
         IF ok
         THEN LET value_bytes == tree_get(holder.db, VertexManager_key(th[p].a.id))
              IN  Return(p, ok, "Ok",
                         IF value_bytes = None THEN None
                         ELSE Some(read_type(unwrap(value_bytes), 1)))
         ELSE Raise(p)
    /\ UNCHANGED <<holder, pre, calls, mismatched, writer>>

CallVertexCreate(p) ==
    \E id \in Uuids, t \in Types :
        Invoke(p, "VertexManager_create",
               [Idle EXCEPT !.pc = "vm_create", !.a.id = id, !.a.t = t])

\* a faulty variant of VertexManager_create that keeps the row of a vertex
\* that exists (C14 must fail with it)
VertexManager_create_if_absent(p) ==
    /\ th[p].pc = "vm_create"
    /\ \E ok \in Outcomes :
         IF ok
         THEN /\ holder' =
                    IF VertexManager_key(th[p].a.id) \in DOMAIN holder.db
                    THEN holder
                    ELSE [holder EXCEPT !.db =
                            tree_insert(@, VertexManager_key(th[p].a.id),
                                        build(<<ComponentType(th[p].a.t)>>))]
              /\ Return(p, ok, "Ok", <<>>)
         ELSE /\ UNCHANGED holder
              /\ Raise(p)
    /\ UNCHANGED <<pre, calls, mismatched, writer>>

VertexManager_create(p) ==
    /\ th[p].pc = "vm_create"
    /\ \E ok \in Outcomes :
         IF ok
         THEN /\ holder' = [holder EXCEPT !.db =
                    tree_insert(@, VertexManager_key(th[p].a.id),
                                build(<<ComponentType(th[p].a.t)>>))]
              /\ Return(p, ok, "Ok", <<>>)
         ELSE /\ UNCHANGED holder
              /\ Raise(p)
    /\ UNCHANGED <<pre, calls, mismatched, writer>>

CallVertexDelete(p) ==
    \E id \in Uuids :
        Invoke(p, "VertexManager_delete",
               [Idle EXCEPT !.pc = "vd_remove", !.a.id = id])

\* a faulty variant of VertexManager_delete_remove whose scan of the vertex
\* properties is not limited to the owner (C18 must fail with it)
VertexManager_delete_remove_scans_all(p) ==
    /\ th[p].pc = "vd_remove"
    /\ \E ok \in Outcomes :
         IF ok
         THEN /\ holder' = [holder EXCEPT !.db =
                    tree_remove(@, VertexManager_key(th[p].a.id))]
              /\ Goto(p, ok, [th[p] EXCEPT !.pc = "vd_vprops",
                                           !.it = scan_prefix(<<>>)])
         ELSE /\ UNCHANGED holder
              /\ Raise(p)
    /\ UNCHANGED <<pre, calls, mismatched, writer>>

\* VertexManager::delete, line 91: the vertex row
VertexManager_delete_remove(p) ==
    /\ th[p].pc = "vd_remove"
    /\ \E ok \in Outcomes :
         IF ok
         THEN /\ holder' = [holder EXCEPT !.db =
                    tree_remove(@, VertexManager_key(th[p].a.id))]
              /\ Goto(p, ok, [th[p] EXCEPT !.pc = "vd_vprops",
                    !.it = scan_prefix(build(<<ComponentUuid(th[p].a.id)>>))])
         ELSE /\ UNCHANGED holder
              /\ Raise(p)
    /\ UNCHANGED <<pre, calls, mismatched, writer>>

\* VertexManager::delete, line 94-95: the next vertex property of the owner
VertexManager_delete_properties(p) ==
    /\ th[p].pc = "vd_vprops"
    /\ \E ok \in Outcomes :
         LET k == IterNext(holder.vertex_properties, th[p].it)
         IN  IF ~ok THEN Raise(p)
             ELSE IF k # NoItem
             THEN Goto(p, ok, [th[p] EXCEPT !.pc = "vd_vprop_delete",
                                  !.item = k, !.it = IterAfter(@, k)])
             ELSE Goto(p, ok, [th[p] EXCEPT !.pc = "vd_fwd", !.item = NoItem,
                    !.it = scan_prefix(build(<<ComponentUuid(th[p].a.id)>>))])
    /\ UNCHANGED <<holder, pre, calls, mismatched, writer>>

\* VertexManager::delete, line 96: VertexPropertyManager::delete of the item
VertexManager_delete_property(p) ==
    /\ th[p].pc = "vd_vprop_delete"
    /\ \E ok \in Outcomes :
         LET item == OwnedPropertyItem(th[p].item)
         IN  IF ok
             THEN /\ holder' = [holder EXCEPT !.vertex_properties =
                        tree_remove(@, VertexPropertyManager_key(item.owner,
                                                                 item.name))]
                  /\ Goto(p, ok, [th[p] EXCEPT !.pc = "vd_vprops",
                                               !.item = NoItem])
             ELSE /\ UNCHANGED holder
                  /\ Raise(p)
    /\ UNCHANGED <<pre, calls, mismatched, writer>>

\* VertexManager::delete, lines 104-111: the EdgeManager::delete arguments
\* for a row of the forward index
ForwardEdge(item) ==
    [o |-> item.first, t |-> item.t, i |-> item.second, d |-> item.d]

\* a faulty variant of ReversedEdge that does not flip the endpoints back
\* (C3 must fail with it)
ReversedEdge_not_flipped(item) ==
    [o |-> item.first, t |-> item.t, i |-> item.second, d |-> item.d]

\* VertexManager::delete, lines 118-130: the EdgeManager::delete arguments
\* for a row of the reversed index (the endpoints flipped back)
ReversedEdge(item) ==
    [o |-> item.second, t |-> item.t, i |-> item.first, d |-> item.d]

\* VertexManager::delete, lines 103-112: the next row of the forward index
\* with the vertex first, and the EdgeManager::delete of its edge
VertexManager_delete_forward(p) ==
    /\ th[p].pc = "vd_fwd"
    /\ \E ok \in Outcomes :
         LET prefix == build(<<ComponentUuid(th[p].a.id)>>)
             k == take_while_prefixed(IterNext(holder.edge_ranges, th[p].it),
                                      ok, prefix)
         IN  IF k # NoItem
             THEN Goto(p, ok, [th[p] EXCEPT !.pc = "ed_remove",
                                  !.it = IterAfter(@, k),
                                  !.e = ForwardEdge(EdgeRangeItem(k)),
                                  !.ret = "vd_fwd"])
             ELSE Goto(p, ok, [th[p] EXCEPT !.pc = "vd_rev",
                                  !.it = scan_prefix(prefix)])
    /\ UNCHANGED <<holder, pre, calls, mismatched, writer>>

\* VertexManager::delete, lines 117-133: the next row of the reversed index
\* with the vertex first, and the EdgeManager::delete of its edge
VertexManager_delete_reversed(p) ==
    /\ th[p].pc = "vd_rev"
    /\ \E ok \in Outcomes :
         LET prefix == build(<<ComponentUuid(th[p].a.id)>>)
             k == take_while_prefixed(
                     IterNext(holder.reversed_edge_ranges, th[p].it), ok, prefix)
         IN  IF k # NoItem
             THEN Goto(p, ok, [th[p] EXCEPT !.pc = "ed_remove",
                                  !.it = IterAfter(@, k),
                                  !.e = ReversedEdge(EdgeRangeItem(k)),
                                  !.ret = "vd_rev"])
             ELSE Return(p, ok, "Ok", <<>>)
    /\ UNCHANGED <<holder, pre, calls, mismatched, writer>>

(* ----------------------------- EdgeManager ----------------------------- *)

\* the thread's frame on entry to an EdgeManager operation on edge e
EdgeFrame(pc, o, t, i, d) ==
    [Idle EXCEPT !.pc = pc, !.a.id = o, !.a.t = t, !.a.id2 = i, !.a.d = d,
                 !.e = [o |-> o, t |-> t, i |-> i, d |-> d]]

CallEdgeGet(p) ==
    \E o \in Uuids, t \in Types, i \in Uuids :
        Invoke(p, "EdgeManager_get", EdgeFrame("em_get", o, t, i, 0))

EdgeManager_get(p) ==
    /\ th[p].pc = "em_get"
    /\ \E ok \in Outcomes :
         IF ok
         THEN Return(p, ok, "Ok",
                     StoredDateTime(holder, th[p].e.o, th[p].e.t, th[p].e.i))
         ELSE Raise(p)
    /\ UNCHANGED <<holder, pre, calls, mismatched, writer>>

CallEdgeSet(p) ==
    \E o \in Uuids, t \in Types, i \in Uuids, d \in DateTimes :
        Invoke(p, "EdgeManager_set", EdgeFrame("es_get", o, t, i, d))

\* a faulty variant of EdgeManager_set_get that never removes the rows of the
\* datetime it read (C7 must fail with it)
EdgeManager_set_get_keeps_old(p) ==
    /\ th[p].pc = "es_get"
    /\ \E ok \in Outcomes :
         IF ~ok THEN Raise(p)
         ELSE Goto(p, ok, [th[p] EXCEPT !.pc = "es_insert"])
    /\ UNCHANGED <<holder, pre, calls, mismatched, writer>>

\* EdgeManager::set, line 172: self.get
EdgeManager_set_get(p) ==
    /\ th[p].pc = "es_get"
    /\ \E ok \in Outcomes :
         LET e == th[p].e
             update_datetime == StoredDateTime(holder, e.o, e.t, e.i)
         IN  IF ~ok THEN Raise(p)
             ELSE IF update_datetime # None
             THEN Goto(p, ok, [th[p] EXCEPT !.pc = "es_del_fwd",
                                            !.old = update_datetime])
             ELSE Goto(p, ok, [th[p] EXCEPT !.pc = "es_insert"])
    /\ UNCHANGED <<holder, pre, calls, mismatched, writer>>

\* a faulty variant of EdgeManager_set_delete_forward that leaves the old row
\* of the forward index (C1 must fail with it)
EdgeManager_set_keep_forward(p) ==
    /\ th[p].pc = "es_del_fwd"
    /\ \E ok \in Outcomes :
         IF ok
         THEN /\ UNCHANGED holder
              /\ Goto(p, ok, [th[p] EXCEPT !.pc = "es_del_rev"])
         ELSE /\ UNCHANGED holder
              /\ Raise(p)
    /\ UNCHANGED <<pre, calls, mismatched, writer>>

\* EdgeManager::set, line 173: the old row of the forward index
EdgeManager_set_delete_forward(p) ==
    /\ th[p].pc = "es_del_fwd"
    /\ \E ok \in Outcomes :
         LET e == th[p].e
         IN  IF ok
             THEN /\ holder' = [holder EXCEPT !.edge_ranges =
                        tree_remove(@, EdgeRangeManager_key(
                                          e.o, e.t, unwrap(th[p].old), e.i))]
                  /\ Goto(p, ok, [th[p] EXCEPT !.pc = "es_del_rev"])
             ELSE /\ UNCHANGED holder
                  /\ Raise(p)
    /\ UNCHANGED <<pre, calls, mismatched, writer>>

\* a faulty variant of EdgeManager_set_delete_reversed whose key has the
\* endpoints in the order of the forward index (C2 must fail with it)
EdgeManager_set_delete_reversed_not_flipped(p) ==
    /\ th[p].pc = "es_del_rev"
    /\ \E ok \in Outcomes :
         LET e == th[p].e
         IN  IF ok
             THEN /\ holder' = [holder EXCEPT !.reversed_edge_ranges =
                        tree_remove(@, EdgeRangeManager_key(
                                          e.o, e.t, unwrap(th[p].old), e.i))]
                  /\ Goto(p, ok, [th[p] EXCEPT !.pc = "es_insert"])
             ELSE /\ UNCHANGED holder
                  /\ Raise(p)
    /\ UNCHANGED <<pre, calls, mismatched, writer>>

\* EdgeManager::set, line 174: the old row of the reversed index
EdgeManager_set_delete_reversed(p) ==
    /\ th[p].pc = "es_del_rev"
    /\ \E ok \in Outcomes :
         LET e == th[p].e
         IN  IF ok
             THEN /\ holder' = [holder EXCEPT !.reversed_edge_ranges =
                        tree_remove(@, EdgeRangeManager_key(
                                          e.i, e.t, unwrap(th[p].old), e.o))]
                  /\ Goto(p, ok, [th[p] EXCEPT !.pc = "es_insert"])
             ELSE /\ UNCHANGED holder
                  /\ Raise(p)
    /\ UNCHANGED <<pre, calls, mismatched, writer>>

\* EdgeManager::set, lines 177-181: the payload
EdgeManager_set_insert(p) ==
    /\ th[p].pc = "es_insert"
    /\ \E ok \in Outcomes :
         LET e == th[p].e
         IN  IF ok
             THEN /\ holder' = [holder EXCEPT !.edges =
                        tree_insert(@, EdgeManager_key(e.o, e.t, e.i),
                                    build(<<ComponentDateTime(e.d)>>))]
                  /\ writer' = p
                  /\ Goto(p, ok, [th[p] EXCEPT !.pc = "es_set_fwd"])
             ELSE /\ UNCHANGED <<holder, writer>>
                  /\ Raise(p)
    /\ UNCHANGED <<pre, calls, mismatched>>

\* a faulty variant of EdgeManager_set_forward that does not write the new
\* row of the forward index (C12 must fail with it)
EdgeManager_set_forward_skipped(p) ==
    /\ th[p].pc = "es_set_fwd"
    /\ \E ok \in Outcomes :
         IF ok
         THEN /\ UNCHANGED holder
              /\ Goto(p, ok, [th[p] EXCEPT !.pc = "es_set_rev"])
         ELSE /\ UNCHANGED holder
              /\ Raise(p)
    /\ UNCHANGED <<pre, calls, mismatched, writer>>

\* EdgeManager::set, line 182: the new row of the forward index
EdgeManager_set_forward(p) ==
    /\ th[p].pc = "es_set_fwd"
    /\ \E ok \in Outcomes :
         LET e == th[p].e
         IN  IF ok
             THEN /\ holder' = [holder EXCEPT !.edge_ranges =
                        tree_insert(@, EdgeRangeManager_key(e.o, e.t, e.d, e.i),
                                    <<>>)]
                  /\ Goto(p, ok, [th[p] EXCEPT !.pc = "es_set_rev"])
             ELSE /\ UNCHANGED holder
                  /\ Raise(p)
    /\ UNCHANGED <<pre, calls, mismatched, writer>>

\* EdgeManager::set, lines 183-184: the new row of the reversed index
EdgeManager_set_reversed(p) ==
    /\ th[p].pc = "es_set_rev"
    /\ \E ok \in Outcomes :
         LET e == th[p].e
         IN  IF ok
             THEN /\ holder' = [holder EXCEPT !.reversed_edge_ranges =
                        tree_insert(@, EdgeRangeManager_key(e.i, e.t, e.d, e.o),
                                    <<>>)]
                  /\ Return(p, ok, "Ok", <<>>)
             ELSE /\ UNCHANGED holder
                  /\ Raise(p)
    /\ UNCHANGED <<pre, calls, mismatched, writer>>

CallEdgeDelete(p) ==
    \E o \in Uuids, t \in Types, i \in Uuids, d \in DateTimes :
        Invoke(p, "EdgeManager_delete", EdgeFrame("ed_remove", o, t, i, d))

\* EdgeManager::delete returns to its caller: a manager's caller, or one of
\* the loops of VertexManager::delete (whose ? passes an error on)
ReturnFromEdgeDelete(p, ok, res) ==
    IF th[p].ret = "idle" \/ res # "Ok"
    THEN Return(p, ok, res, <<>>)
    ELSE Goto(p, ok, [th[p] EXCEPT !.pc = th[p].ret, !.ret = "idle",
                                   !.e = NoEdge, !.eit = NoIter,
                                   !.item = NoItem])

\* EdgeManager::delete, line 188: the edge row
EdgeManager_delete_remove(p) ==
    /\ th[p].pc = "ed_remove"
    /\ \E ok \in Outcomes :
         LET e == th[p].e
         IN  IF ok
             THEN /\ holder' = [holder EXCEPT !.edges =
                        tree_remove(@, EdgeManager_key(e.o, e.t, e.i))]
                  /\ Goto(p, ok, [th[p] EXCEPT !.pc = "ed_fwd"])
             ELSE /\ UNCHANGED holder
                  /\ ReturnFromEdgeDelete(p, ok, "Err")
    /\ UNCHANGED <<pre, calls, mismatched, writer>>

\* a faulty variant of EdgeManager_delete_forward whose key has the endpoints
\* in the order of the reversed index (C4 must fail with it)
EdgeManager_delete_forward_flipped(p) ==
    /\ th[p].pc = "ed_fwd"
    /\ \E ok \in Outcomes :
         LET e == th[p].e
         IN  IF ok
             THEN /\ holder' = [holder EXCEPT !.edge_ranges =
                        tree_remove(@, EdgeRangeManager_key(e.i, e.t, e.d, e.o))]
                  /\ Goto(p, ok, [th[p] EXCEPT !.pc = "ed_rev"])
             ELSE /\ UNCHANGED holder
                  /\ ReturnFromEdgeDelete(p, ok, "Err")
    /\ UNCHANGED <<pre, calls, mismatched, writer>>

\* EdgeManager::delete, lines 190-191: the row of the forward index
EdgeManager_delete_forward(p) ==
    /\ th[p].pc = "ed_fwd"
    /\ \E ok \in Outcomes :
         LET e == th[p].e
         IN  IF ok
             THEN /\ holder' = [holder EXCEPT !.edge_ranges =
                        tree_remove(@, EdgeRangeManager_key(e.o, e.t, e.d, e.i))]
                  /\ Goto(p, ok, [th[p] EXCEPT !.pc = "ed_rev"])
             ELSE /\ UNCHANGED holder
                  /\ ReturnFromEdgeDelete(p, ok, "Err")
    /\ UNCHANGED <<pre, calls, mismatched, writer>>

\* a faulty variant of EdgeManager_delete_reversed that leaves the row of
\* the reversed index (C11 must fail with it)
EdgeManager_delete_keep_reversed(p) ==
    /\ th[p].pc = "ed_rev"
    /\ \E ok \in Outcomes :
         IF ok
         THEN /\ UNCHANGED holder
              /\ Goto(p, ok, [th[p] EXCEPT !.pc = "ed_props"])
         ELSE /\ UNCHANGED holder
              /\ ReturnFromEdgeDelete(p, ok, "Err")
    /\ UNCHANGED <<pre, calls, mismatched, writer>>

\* a faulty variant of EdgeManager_delete_reversed whose scan of the edge
\* properties is limited to the outbound id only (C19 must fail with it)
EdgeManager_delete_reversed_scans_outbound(p) ==
    /\ th[p].pc = "ed_rev"
    /\ \E ok \in Outcomes :
         LET e == th[p].e
         IN  IF ok
             THEN /\ holder' = [holder EXCEPT !.reversed_edge_ranges =
                        tree_remove(@, EdgeRangeManager_key(e.i, e.t, e.d, e.o))]
                  /\ Goto(p, ok, [th[p] EXCEPT !.pc = "ed_props",
                        !.eit = scan_prefix(build(<<ComponentUuid(e.o)>>))])
             ELSE /\ UNCHANGED holder
                  /\ ReturnFromEdgeDelete(p, ok, "Err")
    /\ UNCHANGED <<pre, calls, mismatched, writer>>

\* EdgeManager::delete, lines 193-194: the row of the reversed index
EdgeManager_delete_reversed(p) ==
    /\ th[p].pc = "ed_rev"
    /\ \E ok \in Outcomes :
         LET e == th[p].e
         IN  IF ok
             THEN /\ holder' = [holder EXCEPT !.reversed_edge_ranges =
                        tree_remove(@, EdgeRangeManager_key(e.i, e.t, e.d, e.o))]
                  /\ Goto(p, ok, [th[p] EXCEPT !.pc = "ed_props",
                        !.eit = scan_prefix(build(<<ComponentUuid(e.o),
                                   ComponentType(e.t), ComponentUuid(e.i)>>))])
             ELSE /\ UNCHANGED holder
                  /\ ReturnFromEdgeDelete(p, ok, "Err")
    /\ UNCHANGED <<pre, calls, mismatched, writer>>

\* EdgeManager::delete, lines 197-198 and 206: the next property of the edge
EdgeManager_delete_properties(p) ==
    /\ th[p].pc = "ed_props"
    /\ \E ok \in Outcomes :
         LET k == IterNext(holder.edge_properties, th[p].eit)
         IN  IF ~ok THEN ReturnFromEdgeDelete(p, ok, "Err")
             ELSE IF k # NoItem
             THEN Goto(p, ok, [th[p] EXCEPT !.pc = "ed_prop_delete",
                                  !.item = k, !.eit = IterAfter(@, k)])
             ELSE ReturnFromEdgeDelete(p, ok, "Ok")
    /\ UNCHANGED <<holder, pre, calls, mismatched, writer>>

\* EdgeManager::delete, lines 199-204: EdgePropertyManager::delete of the item
EdgeManager_delete_property(p) ==
    /\ th[p].pc = "ed_prop_delete"
    /\ \E ok \in Outcomes :
         LET item == EdgePropertyItem(th[p].item)
         IN  IF ok
             THEN /\ holder' = [holder EXCEPT !.edge_properties =
                        tree_remove(@, EdgePropertyManager_key(
                                          item.o, item.t, item.i, item.name))]
                  /\ Goto(p, ok, [th[p] EXCEPT !.pc = "ed_props",
                                               !.item = NoItem])
             ELSE /\ UNCHANGED holder
                  /\ ReturnFromEdgeDelete(p, ok, "Err")
    /\ UNCHANGED <<pre, calls, mismatched, writer>>

(* --------------------------- EdgeRangeManager -------------------------- *)

RECURSIVE iterate(_, _, _)
\* EdgeRangeManager::iterate, consumed to its end: the decoded items of the
\* iterator, while their keys start with the prefix
iterate(tree, iterator, prefix) ==
    LET k == take_while_prefixed(IterNext(tree, iterator), TRUE, prefix)
    IN  IF k = NoItem THEN <<>>
        ELSE <<EdgeRangeItem(k)>> \o iterate(tree, IterAfter(iterator, k), prefix)

\* EdgeRangeManager::iterate_for_range, lines 254-264: a type is given
iterate_for_range_typed(tree, id, t, high) ==
    LET h == IF high = None THEN MAX_DATETIME ELSE unwrap(high)
        prefix == build(<<ComponentUuid(id), ComponentType(t)>>)
        low_key == build(<<ComponentUuid(id), ComponentType(t),
                           ComponentDateTime(h)>>)
    IN  iterate(tree, range(low_key), prefix)

\* a faulty variant of high_filter that leaves out the rows at high itself
\* (C10 must fail with it)
high_filter_strict(mapped, high) ==
    SelectSeq(mapped, LAMBDA item : item.d < high)

\* EdgeRangeManager::iterate_for_range, lines 276-282: the filter on high
high_filter(mapped, high) ==
    SelectSeq(mapped, LAMBDA item : item.d <= high)

\* EdgeRangeManager::iterate_for_range, lines 266-288: no type is given
iterate_for_range_untyped(tree, id, high) ==
    LET prefix == build(<<ComponentUuid(id)>>)
        mapped == iterate(tree, range(prefix), prefix)
    IN  IF high # None THEN high_filter(mapped, unwrap(high)) ELSE mapped

\* EdgeRangeManager::iterate_for_range, every item it yields
iterate_for_range(tree, id, t, high) ==
    IF t # None THEN iterate_for_range_typed(tree, id, unwrap(t), high)
    ELSE iterate_for_range_untyped(tree, id, high)

\* the tree of EdgeRangeManager::new or EdgeRangeManager::new_reversed
RangeTree(h, rev) == IF rev THEN h.reversed_edge_ranges ELSE h.edge_ranges

\* the datetimes a caller gives as high
Highs == DateTimes \cup {MIN_DATETIME, MAX_DATETIME}

CallIterateForRange(p) ==
    \E id \in Uuids, t \in {None} \cup {Some(x) : x \in Types},
       high \in {None} \cup {Some(x) : x \in Highs}, rev \in BOOLEAN :
        Invoke(p, "EdgeRangeManager_iterate_for_range",
               [Idle EXCEPT !.pc = "er_iterate", !.a.id = id, !.a.topt = t,
                            !.a.high = high, !.a.rev = rev])

\* the caller consumes the iterator of iterate_for_range; an error of the
\* store at an advance ends the iteration there (take_while_prefixed)
EdgeRangeManager_iterate_for_range(p) ==
    /\ th[p].pc = "er_iterate"
    /\ \E ok \in Outcomes :
         LET a == th[p].a
             all == iterate_for_range(RangeTree(holder, a.rev), a.id, a.topt,
                                      a.high)
         IN  IF ok THEN Return(p, ok, "Ok", all)
             ELSE \E n \in 0..Len(all) : Return(p, ok, "Ok", SubSeq(all, 1, n))
    /\ UNCHANGED <<holder, pre, calls, mismatched, writer>>

(* ------------------------ VertexPropertyManager ------------------------ *)

CallVertexPropertyGet(p) ==
    \E id \in Uuids, name \in Names :
        Invoke(p, "VertexPropertyManager_get",
               [Idle EXCEPT !.pc = "vp_get", !.a.id = id, !.a.name = name])

VertexPropertyManager_get(p) ==
    /\ th[p].pc = "vp_get"
    /\ \E ok \in Outcomes :
         LET value_bytes == tree_get(holder.vertex_properties,
                   VertexPropertyManager_key(th[p].a.id, th[p].a.name))
         IN  IF ~ok THEN Raise(p)
             ELSE Return(p, ok, "Ok",
                         IF value_bytes = None THEN None
                         ELSE Some(from_slice(unwrap(value_bytes))))
    /\ UNCHANGED <<holder, pre, calls, mismatched, writer>>

CallVertexPropertySet(p) ==
    \E id \in Uuids, name \in Names, value \in JsonValues :
        Invoke(p, "VertexPropertyManager_set",
               [Idle EXCEPT !.pc = "vp_set", !.a.id = id, !.a.name = name,
                            !.a.val = value])

VertexPropertyManager_set(p) ==
    /\ th[p].pc = "vp_set"
    /\ \E ok \in Outcomes :
         IF ok
         THEN /\ holder' = [holder EXCEPT !.vertex_properties =
                    tree_insert(@, VertexPropertyManager_key(th[p].a.id,
                                                             th[p].a.name),
                                to_vec(th[p].a.val))]
              /\ Return(p, ok, "Ok", <<>>)
         ELSE /\ UNCHANGED holder
              /\ Raise(p)
    /\ UNCHANGED <<pre, calls, mismatched, writer>>

CallVertexPropertyDelete(p) ==
    \E id \in Uuids, name \in Names :
        Invoke(p, "VertexPropertyManager_delete",
               [Idle EXCEPT !.pc = "vp_delete", !.a.id = id, !.a.name = name])

VertexPropertyManager_delete(p) ==
    /\ th[p].pc = "vp_delete"
    /\ \E ok \in Outcomes :
         IF ok
         THEN /\ holder' = [holder EXCEPT !.vertex_properties =
                    tree_remove(@, VertexPropertyManager_key(th[p].a.id,
                                                             th[p].a.name))]
              /\ Return(p, ok, "Ok", <<>>)
         ELSE /\ UNCHANGED holder
              /\ Raise(p)
    /\ UNCHANGED <<pre, calls, mismatched, writer>>

(* ------------------------- EdgePropertyManager ------------------------- *)

CallEdgePropertyGet(p) ==
    \E o \in Uuids, t \in Types, i \in Uuids, name \in Names :
        Invoke(p, "EdgePropertyManager_get",
               [Idle EXCEPT !.pc = "ep_get", !.a.id = o, !.a.t = t,
                            !.a.id2 = i, !.a.name = name])

EdgePropertyManager_get(p) ==
    /\ th[p].pc = "ep_get"
    /\ \E ok \in Outcomes :
         LET a == th[p].a
             value_bytes == tree_get(holder.edge_properties,
                   EdgePropertyManager_key(a.id, a.t, a.id2, a.name))
         IN  IF ~ok THEN Raise(p)
             ELSE Return(p, ok, "Ok",
                         IF value_bytes = None THEN None
                         ELSE Some(from_slice(unwrap(value_bytes))))
    /\ UNCHANGED <<holder, pre, calls, mismatched, writer>>

CallEdgePropertySet(p) ==
    \E o \in Uuids, t \in Types, i \in Uuids, name \in Names,
       value \in JsonValues :
        Invoke(p, "EdgePropertyManager_set",
               [Idle EXCEPT !.pc = "ep_set", !.a.id = o, !.a.t = t,
                            !.a.id2 = i, !.a.name = name, !.a.val = value])

EdgePropertyManager_set(p) ==
    /\ th[p].pc = "ep_set"
    /\ \E ok \in Outcomes :
         LET a == th[p].a
         IN  IF ok
             THEN /\ holder' = [holder EXCEPT !.edge_properties =
                        tree_insert(@, EdgePropertyManager_key(
                                          a.id, a.t, a.id2, a.name),
                                    to_vec(a.val))]
                  /\ Return(p, ok, "Ok", <<>>)
             ELSE /\ UNCHANGED holder
                  /\ Raise(p)
    /\ UNCHANGED <<pre, calls, mismatched, writer>>

CallEdgePropertyDelete(p) ==
    \E o \in Uuids, t \in Types, i \in Uuids, name \in Names :
        Invoke(p, "EdgePropertyManager_delete",
               [Idle EXCEPT !.pc = "ep_delete", !.a.id = o, !.a.t = t,
                            !.a.id2 = i, !.a.name = name])

EdgePropertyManager_delete(p) ==
    /\ th[p].pc = "ep_delete"
    /\ \E ok \in Outcomes :
         LET a == th[p].a
         IN  IF ok
             THEN /\ holder' = [holder EXCEPT !.edge_properties =
                        tree_remove(@, EdgePropertyManager_key(
                                          a.id, a.t, a.id2, a.name))]
                  /\ Return(p, ok, "Ok", <<>>)
             ELSE /\ UNCHANGED holder
                  /\ Raise(p)
    /\ UNCHANGED <<pre, calls, mismatched, writer>>

(* -------------------------- the specifications ------------------------- *)

\* the steps of EdgeManager::set
EdgeSetStep(p) ==
    \/ EdgeManager_set_get(p)
    \/ EdgeManager_set_delete_forward(p)
    \/ EdgeManager_set_delete_reversed(p)
    \/ EdgeManager_set_insert(p)
    \/ EdgeManager_set_forward(p)
    \/ EdgeManager_set_reversed(p)

\* the steps of EdgeManager::delete
EdgeDeleteStep(p) ==
    \/ EdgeManager_delete_remove(p)
    \/ EdgeManager_delete_forward(p)
    \/ EdgeManager_delete_reversed(p)
    \/ EdgeManager_delete_properties(p)
    \/ EdgeManager_delete_property(p)

\* the steps of VertexManager::delete
VertexDeleteStep(p) ==
    \/ VertexManager_delete_remove(p)
    \/ VertexManager_delete_properties(p)
    \/ VertexManager_delete_property(p)
    \/ VertexManager_delete_forward(p)
    \/ VertexManager_delete_reversed(p)

Call(p) ==
    \/ CallVertexExists(p)
    \/ CallVertexGet(p)
    \/ CallVertexCreate(p)
    \/ CallVertexDelete(p)
    \/ CallEdgeGet(p)
    \/ CallEdgeSet(p)
    \/ CallEdgeDelete(p)
    \/ CallVertexPropertyGet(p)
    \/ CallVertexPropertySet(p)
    \/ CallVertexPropertyDelete(p)
    \/ CallEdgePropertyGet(p)
    \/ CallEdgePropertySet(p)
    \/ CallEdgePropertyDelete(p)

Step(p) ==
    \/ VertexManager_exists(p)
    \/ VertexManager_get(p)
    \/ VertexManager_create(p)
    \/ VertexDeleteStep(p)
    \/ EdgeManager_get(p)
    \/ EdgeSetStep(p)
    \/ EdgeDeleteStep(p)
    \/ VertexPropertyManager_get(p)
    \/ VertexPropertyManager_set(p)
    \/ VertexPropertyManager_delete(p)
    \/ EdgePropertyManager_get(p)
    \/ EdgePropertyManager_set(p)
    \/ EdgePropertyManager_delete(p)

Next == Call(1) \/ Step(1)

\* one caller, one call at a time, from the empty store, on a KV store that
\* never fails
Spec == Init /\ [][Next]_vars

\* the process stops inside a manager call, between two KV operations
Crash(p) ==
    /\ th[p].pc # "idle"
    /\ faults > 0
    /\ Return(p, FALSE, "Crashed", <<>>)
    /\ UNCHANGED <<holder, pre, calls, mismatched, writer>>

InitErr ==
    /\ holder = EmptyHolder
    /\ th = [p \in {1} |-> Idle]
    /\ pre = EmptyHolder
    /\ last = [p \in {1} |-> NoCall]
    /\ calls = MaxCalls
    /\ faults = MaxFaults
    /\ mismatched = FALSE
    /\ writer = 0

\* the calls that write: the cascades, and what fills the trees they empty
NextErr ==
    \/ CallVertexCreate(1)
    \/ CallVertexDelete(1)
    \/ CallEdgeSet(1)
    \/ CallVertexPropertySet(1)
    \/ CallEdgePropertySet(1)
    \/ VertexManager_create(1)
    \/ VertexDeleteStep(1)
    \/ EdgeSetStep(1)
    \/ EdgeDeleteStep(1)
    \/ VertexPropertyManager_set(1)
    \/ EdgePropertyManager_set(1)
    \/ Crash(1)

\* one caller, on a KV store whose operations may report an error, in a
\* process that may stop
SpecErr == InitErr /\ [][NextErr]_vars

InitRange ==
    /\ holder = EmptyHolder
    /\ th = [p \in {1} |-> Idle]
    /\ pre = EmptyHolder
    /\ last = [p \in {1} |-> NoCall]
    /\ calls = MaxRangeCalls
    /\ faults = 0
    /\ mismatched = FALSE
    /\ writer = 0

NextRange ==
    \/ CallEdgeSet(1)
    \/ EdgeSetStep(1)
    \/ CallIterateForRange(1)
    \/ EdgeRangeManager_iterate_for_range(1)

\* one caller that sets edges and traverses the index trees
SpecRange == InitRange /\ [][NextRange]_vars

(* ------------------------- EdgeManager::set races ---------------------- *)

\* the datetimes an edge may hold before the racing writers start: the
\* callers' datetimes and one more, which neither writer gives
PriorDateTimes == DateTimes \cup {(NumDateTimes + 1) * DateTimeStep}

\* a store that holds nothing but the edge (o, t, i), with the datetime
\* prior (or not at all), as EdgeManager::set leaves it
StoreWithEdge(o, t, i, prior) ==
    IF prior = None THEN EmptyHolder
    ELSE [EmptyHolder EXCEPT
            !.edges = tree_insert(@, EdgeManager_key(o, t, i),
                                  build(<<ComponentDateTime(unwrap(prior))>>)),
            !.edge_ranges = tree_insert(@,
                  EdgeRangeManager_key(o, t, unwrap(prior), i), <<>>),
            !.reversed_edge_ranges = tree_insert(@,
                  EdgeRangeManager_key(i, t, unwrap(prior), o), <<>>)]

\* two threads have each entered EdgeManager::set on the same edge, with
\* different datetimes
InitRace ==
    \E o \in Uuids, t \in Types, i \in Uuids, d1 \in DateTimes,
       d2 \in DateTimes,
       prior \in {None} \cup {Some(d) : d \in PriorDateTimes} :
        /\ d1 # d2
        /\ holder = StoreWithEdge(o, t, i, prior)
        /\ pre = holder
        /\ th = [p \in {1, 2} |->
                    EdgeFrame("es_get", o, t, i, IF p = 1 THEN d1 ELSE d2)]
        /\ last = [p \in {1, 2} |->
                    [NoCall EXCEPT !.op = "EdgeManager_set", !.res = "Running",
                       !.a = EdgeFrame("es_get", o, t, i,
                                       IF p = 1 THEN d1 ELSE d2).a]]
        /\ calls = 0
        /\ faults = 0
        /\ mismatched = FALSE
        /\ writer = 0

NextRace == EdgeSetStep(1) \/ EdgeSetStep(2)

\* two concurrent writers of one edge, interleaved at single KV operations
SpecRace == InitRace /\ [][NextRace]_vars

(* ------------------------- what the trees hold ------------------------- *)

\* the edges of the store h: the keys of its edges tree with their payload
EdgesOf(h) ==
    {[o |-> read_uuid(k, 1), t |-> read_type(k, UuidLen + 1),
      i |-> read_uuid(k, Len(k) - UuidLen + 1),
      d |-> read_datetime(h.edges[k], 1)] : k \in DOMAIN h.edges}

\* the rows (first, t, d, second) of an index tree
RowsOf(tree) == {EdgeRangeItem(k) : k \in DOMAIN tree}

\* the index invariant: one forward and one reversed row per edge, with
\* the datetime of its payload, and no other index row
IndexExact(h) ==
    /\ RowsOf(h.edge_ranges) =
          {[first |-> e.o, t |-> e.t, d |-> e.d, second |-> e.i] :
              e \in EdgesOf(h)}
    /\ RowsOf(h.reversed_edge_ranges) =
          {[first |-> e.i, t |-> e.t, d |-> e.d, second |-> e.o] :
              e \in EdgesOf(h)}

Quiet == \A p \in DOMAIN th : th[p].pc = "idle"

\* thread 1's latest call was op and it returned Ok
Completed(op) ==
    /\ th[1].pc = "idle"
    /\ last[1].op = op
    /\ last[1].res = "Ok"

(* -------------------------------- C1 ----------------------------------- *)

\* C1 as stated: whenever no manager operation is in progress, after any
\* sequence of completed calls from the empty store (with any arguments),
\* the index trees hold exactly one forward and one reversed row per edge,
\* with the datetime of its payload.
C1_IndexExactAlways == Quiet => IndexExact(holder)

\* C1, amended: the same, for the sequences of calls in which every
\* EdgeManager::delete of a stored edge is given the datetime stored for it.
C1_IndexExactWhenDeletesMatch ==
    (Quiet /\ ~mismatched) => IndexExact(holder)

\* C1's case: an edge was deleted with its stored datetime while another
\* edge stays in the store
C1_Witness ==
    /\ Completed("EdgeManager_delete")
    /\ ~mismatched
    /\ StoredDateTime(pre, last[1].a.id, last[1].a.t, last[1].a.id2) # None
    /\ EdgesOf(holder) # {}

(* -------------------------------- C2 ----------------------------------- *)

\* the index rows of the edge (o, t, i) in the store h
ForwardRowsOfEdge(h, o, t, i) ==
    {r \in RowsOf(h.edge_ranges) : r.first = o /\ r.t = t /\ r.second = i}
ReversedRowsOfEdge(h, o, t, i) ==
    {r \in RowsOf(h.reversed_edge_ranges) :
        r.first = i /\ r.t = t /\ r.second = o}

\* C2: after a completed EdgeManager::set(o, t, i, d) on a store that
\* satisfied the index invariant, whatever the edge held before, the payload
\* is d and the only index rows of the edge are (o, t, d, i) and (i, t, d, o).
C2_SetReplacesIndexRows ==
    (Completed("EdgeManager_set") /\ IndexExact(pre)) =>
        LET a == last[1].a
        IN  /\ StoredDateTime(holder, a.id, a.t, a.id2) = Some(a.d)
            /\ ForwardRowsOfEdge(holder, a.id, a.t, a.id2) =
                  {[first |-> a.id, t |-> a.t, d |-> a.d, second |-> a.id2]}
            /\ ReversedRowsOfEdge(holder, a.id, a.t, a.id2) =
                  {[first |-> a.id2, t |-> a.t, d |-> a.d, second |-> a.id]}

\* C2's case: the edge was there with another datetime
C2_Witness ==
    /\ Completed("EdgeManager_set")
    /\ IndexExact(pre)
    /\ StoredDateTime(pre, last[1].a.id, last[1].a.t, last[1].a.id2)
          \notin {None, Some(last[1].a.d)}

(* -------------------------------- C3 ----------------------------------- *)

\* no row of any tree of h has the vertex v as a component of its key
NoRowMentions(h, v) ==
    /\ VertexManager_key(v) \notin DOMAIN h.db
    /\ \A name \in Names :
          VertexPropertyManager_key(v, name) \notin DOMAIN h.vertex_properties
    /\ \A o \in Uuids, t \in Types, i \in Uuids :
          (v \in {o, i}) =>
             /\ EdgeManager_key(o, t, i) \notin DOMAIN h.edges
             /\ ForwardRowsOfEdge(h, o, t, i) = {}
             /\ ReversedRowsOfEdge(h, o, t, i) = {}
             /\ \A name \in Names :
                   EdgePropertyManager_key(o, t, i, name)
                      \notin DOMAIN h.edge_properties

\* every edge property of h on an edge with endpoint v is on an edge that
\* has a row in an index tree
PropertiesOnIndexedEdges(h, v) ==
    \A o \in Uuids, t \in Types, i \in Uuids, name \in Names :
        (/\ v \in {o, i}
         /\ EdgePropertyManager_key(o, t, i, name) \in DOMAIN h.edge_properties)
        => (ForwardRowsOfEdge(h, o, t, i) # {}
            \/ ReversedRowsOfEdge(h, o, t, i) # {})

C4_EdgeDeleteLeavesNoRow ==
    Completed("EdgeManager_delete") =>
        LET a == last[1].a
        IN  /\ EdgeManager_key(a.id, a.t, a.id2) \notin DOMAIN holder.edges
            /\ EdgeRangeManager_key(a.id, a.t, a.d, a.id2)
                  \notin DOMAIN holder.edge_ranges
            /\ EdgeRangeManager_key(a.id2, a.t, a.d, a.id)
                  \notin DOMAIN holder.reversed_edge_ranges
            /\ \A name \in Names :
                  EdgePropertyManager_key(a.id, a.t, a.id2, name)
                     \notin DOMAIN holder.edge_properties

\* C4's case: the edge was there with the datetime d, and had a property
C4_Witness ==
    /\ Completed("EdgeManager_delete")
    /\ StoredDateTime(pre, last[1].a.id, last[1].a.t, last[1].a.id2)
          = Some(last[1].a.d)
    /\ \E name \in Names :
          EdgePropertyManager_key(last[1].a.id, last[1].a.t, last[1].a.id2,
                                  name) \in DOMAIN pre.edge_properties

(* -------------------------------- C5 ----------------------------------- *)

\* C5: a VertexManager::delete(v) that was stopped after some of its KV
\* writes, and is then run again to completion, leaves what one
\* uninterrupted delete leaves: no row of any tree that mentions v (pre is
\* the store when the first attempt began; an uninterrupted delete of a
\* store with PropertiesOnIndexedEdges leaves no such row, by C3).
C5_RetryCompletesDelete ==
    (/\ Completed("VertexManager_delete")
     /\ last[1].retry
     /\ PropertiesOnIndexedEdges(pre, last[1].a.id))
    => NoRowMentions(holder, last[1].a.id)

(* -------------------------------- C6 ----------------------------------- *)

\* C6: a manager call during which the KV store reported a failure returns
\* an error to its caller.
C6_FailureSurfaces ==
    (/\ th[1].pc = "idle"
     /\ last[1].failed
     /\ last[1].res # "Crashed")
    => last[1].res = "Err"

(* -------------------------------- C7 ----------------------------------- *)

\* C7: once two concurrent EdgeManager::set calls on one edge, with
\* different datetimes, have both completed, the payload is the datetime of
\* the writer whose insert into the edges tree came last, both index rows
\* with that datetime exist, and any other index row of the edge has the
\* other writer's datetime.
C7_LastWriterWins ==
    (Quiet /\ writer # 0) =>
        LET a == last[writer].a
            won == a.d
            lost == last[3 - writer].a.d
        IN  /\ StoredDateTime(holder, a.id, a.t, a.id2) = Some(won)
            /\ [first |-> a.id, t |-> a.t, d |-> won, second |-> a.id2]
                  \in ForwardRowsOfEdge(holder, a.id, a.t, a.id2)
            /\ [first |-> a.id2, t |-> a.t, d |-> won, second |-> a.id]
                  \in ReversedRowsOfEdge(holder, a.id, a.t, a.id2)
            /\ \A r \in RowsOf(holder.edge_ranges)
                        \cup RowsOf(holder.reversed_edge_ranges) :
                  r.d \in {won, lost}

\* C7's case: the edge held a third datetime before, both writers have
\* completed, and a row of the losing writer is left in the forward index
C7_Witness ==
    /\ Quiet
    /\ writer # 0
    /\ DOMAIN th = {1, 2}
    /\ \E e \in EdgesOf(pre) : e.d \notin {last[1].a.d, last[2].a.d}
    /\ \E r \in RowsOf(holder.edge_ranges) : r.d = last[3 - writer].a.d

(* -------------------------------- C8 ----------------------------------- *)

\* the items of a sequence
ItemsOf(seq) == {seq[j] : j \in 1..Len(seq)}

\* the tree the latest iterate_for_range call of thread 1 traversed
TraversedTree == RangeTree(holder, last[1].a.rev)

\* C8: iterate_for_range(id, Some(t), Some(h)) yields exactly the index
\* rows whose first id is id, whose type is t and whose update_datetime
\* is <= h.
C8_TypedBoundedYieldsUpToHigh ==
    (/\ Completed("EdgeRangeManager_iterate_for_range")
     /\ last[1].a.topt # None
     /\ last[1].a.high # None)
    => /\ ItemsOf(last[1].out) =
             {r \in RowsOf(TraversedTree) :
                 /\ r.first = last[1].a.id
                 /\ r.t = unwrap(last[1].a.topt)
                 /\ r.d <= unwrap(last[1].a.high)}
       /\ Len(last[1].out) = Cardinality(ItemsOf(last[1].out))

(* -------------------------------- C9 ----------------------------------- *)

\* C9: iterate_for_range(id, Some(t), None) yields what high = MAX_DATETIME
\* yields, which is exactly every index row whose first id is id and whose
\* type is t.
C9_TypedUnboundedYieldsAll ==
    (/\ Completed("EdgeRangeManager_iterate_for_range")
     /\ last[1].a.topt # None
     /\ last[1].a.high = None)
    => /\ last[1].out = iterate_for_range(TraversedTree, last[1].a.id,
                                          last[1].a.topt, Some(MAX_DATETIME))
       /\ ItemsOf(last[1].out) =
             {r \in RowsOf(TraversedTree) :
                 /\ r.first = last[1].a.id
                 /\ r.t = unwrap(last[1].a.topt)}

(* -------------------------------- C10 ---------------------------------- *)

\* the order of two types in a key: that of their encoded components
TypeLess(t1, t2) ==
    /\ t1 # t2
    /\ LexLeq(ComponentType(t1), ComponentType(t2))

\* the order of two rows with the same first id on (t, d, second)
RowLess(r1, r2) ==
    \/ TypeLess(r1.t, r2.t)
    \/ /\ r1.t = r2.t
       /\ \/ r1.d < r2.d
          \/ r1.d = r2.d /\ r1.second < r2.second

\* C10: iterate_for_range(id, None, high) yields, in ascending
\* (type, update_datetime, second_id) order, exactly the index rows whose
\* first id is id (of every type), restricted to update_datetime <= h when
\* high = Some(h).
C10_UntypedYieldsOwnersRows ==
    (/\ Completed("EdgeRangeManager_iterate_for_range")
     /\ last[1].a.topt = None)
    => /\ ItemsOf(last[1].out) =
             {r \in RowsOf(TraversedTree) :
                 /\ r.first = last[1].a.id
                 /\ \A h \in last[1].a.high : r.d <= h}
       /\ \A j \in 1..(Len(last[1].out) - 1) :
             RowLess(last[1].out[j], last[1].out[j + 1])

\* C10's case: with high = Some(h), two rows of different types to the same
\* second id are yielded and a row of the owner later than h is left out
C10_Witness ==
    /\ Completed("EdgeRangeManager_iterate_for_range")
    /\ last[1].a.topt = None
    /\ last[1].a.high # None
    /\ \E j, k \in 1..Len(last[1].out) :
          /\ last[1].out[j].t # last[1].out[k].t
          /\ last[1].out[j].second = last[1].out[k].second
    /\ \E r \in RowsOf(TraversedTree) :
          r.first = last[1].a.id /\ r.d > unwrap(last[1].a.high)

(* -------------------------------- C11 ---------------------------------- *)

\* the vertex ids of the vertex tree of h
VerticesOf(h) == {read_uuid(k, 1) : k \in DOMAIN h.db}

\* the vertex ids that are a key component of an edge row, an index row, a
\* vertex property row or an edge property row of h
ReferencedVertices(h) ==
    UNION {{e.o, e.i} : e \in EdgesOf(h)}
    \cup UNION {{r.first, r.second} :
                   r \in RowsOf(h.edge_ranges)
                         \cup RowsOf(h.reversed_edge_ranges)}
    \cup {OwnedPropertyItem(k).owner : k \in DOMAIN h.vertex_properties}
    \cup UNION {{EdgePropertyItem(k).o, EdgePropertyItem(k).i} :
                   k \in DOMAIN h.edge_properties}

\* no row references a vertex id that is absent from the vertex tree
NoDanglingReference(h) == ReferencedVertices(h) \subseteq VerticesOf(h)

\* every edge property row of h is on an edge of the edges tree
EdgePropertiesOnEdges(h) ==
    \A k \in DOMAIN h.edge_properties :
        EdgeManager_key(EdgePropertyItem(k).o, EdgePropertyItem(k).t,
                        EdgePropertyItem(k).i) \in DOMAIN h.edges

\* the store h is referentially sound
Sound(h) ==
    /\ NoDanglingReference(h)
    /\ IndexExact(h)
    /\ EdgePropertiesOnEdges(h)

\* the call c names only what the store h holds: EdgeManager::set both
\* endpoints, VertexPropertyManager::set the owner, EdgePropertyManager::set
\* the edge, and EdgeManager::delete the datetime stored for the edge
NamesWhatIsStored(h, c) ==
    /\ c.op = "EdgeManager_set" => {c.a.id, c.a.id2} \subseteq VerticesOf(h)
    /\ c.op = "VertexPropertyManager_set" => c.a.id \in VerticesOf(h)
    /\ c.op = "EdgePropertyManager_set" =>
          EdgeManager_key(c.a.id, c.a.t, c.a.id2) \in DOMAIN h.edges
    /\ c.op = "EdgeManager_delete" =>
          StoredDateTime(h, c.a.id, c.a.t, c.a.id2) \in {None, Some(c.a.d)}

HoldsWhatSetWrites(h, o, t, i, d) ==
    /\ StoredDateTime(h, o, t, i) = Some(d)
    /\ EdgeRangeManager_key(o, t, d, i) \in DOMAIN h.edge_ranges
    /\ EdgeRangeManager_key(i, t, d, o) \in DOMAIN h.reversed_edge_ranges

\* C12: EdgeManager::set is idempotent. Every completed set(o, t, i, d)
\* leaves a store that holds what it writes, and a set(o, t, i, d) on a
\* store that holds what it writes (so on the store a first set(o, t, i, d)
\* left) leaves every tree as it was.
C12_SetIsIdempotent ==
    Completed("EdgeManager_set") =>
        LET a == last[1].a
        IN  /\ HoldsWhatSetWrites(holder, a.id, a.t, a.id2, a.d)
            /\ HoldsWhatSetWrites(pre, a.id, a.t, a.id2, a.d) => holder = pre

\* C12's case: the second of two set(o, t, i, d), on a store that holds
\* other rows too
C12_Witness ==
    /\ Completed("EdgeManager_set")
    /\ HoldsWhatSetWrites(pre, last[1].a.id, last[1].a.t, last[1].a.id2,
                          last[1].a.d)
    /\ holder = pre
    /\ Cardinality(DOMAIN pre.edges) + Cardinality(DOMAIN pre.edge_properties)
          + Cardinality(DOMAIN pre.db) > 1

(* -------------------------------- C13 ---------------------------------- *)

\* C13: iterate_for_range(id, Some(t), Some(MIN_DATETIME)) yields no row
\* when the traversed tree holds rows of (id, t) with datetimes later than
\* MIN_DATETIME.
C13_TypedAtMinimumYieldsNothing ==
    (/\ Completed("EdgeRangeManager_iterate_for_range")
     /\ last[1].a.topt # None
     /\ last[1].a.high = Some(MIN_DATETIME)
     /\ \E r \in RowsOf(TraversedTree) :
           /\ r.first = last[1].a.id
           /\ r.t = unwrap(last[1].a.topt)
           /\ r.d > MIN_DATETIME)
    => last[1].out = <<>>

(* -------------------------------- C14 ---------------------------------- *)

\* the type the vertex tree of h holds for the vertex id, if any
TypeOf(h, id) ==
    IF VertexManager_key(id) \in DOMAIN h.db
    THEN Some(read_type(h.db[VertexManager_key(id)], 1))
    ELSE None

\* the trees of h other than the vertex tree
OtherTrees(h) ==
    <<h.edges, h.edge_ranges, h.reversed_edge_ranges, h.vertex_properties,
      h.edge_properties>>

\* C14: the vertex tree is a map from ids to types that only create and
\* delete change. A completed create(id, t) makes the type of id t,
\* whether or not id existed, and changes nothing else in any tree; a
\* completed delete(id) leaves id without a type and every other vertex
\* with its type; every other call leaves the vertex tree as it was;
\* get(id) returns the type the tree holds for id, and exists(id) whether
\* it holds one. (So get(id) is the type of the latest create(id) that no
\* delete(id) followed, exists(id) is true exactly when get(id) is Some.)
C14_VertexTreeIsAMap ==
    (Quiet /\ last[1].res = "Ok") =>
        LET c == last[1]
            others == Uuids \ {c.a.id}
        IN  /\ c.op = "VertexManager_create" =>
                  /\ TypeOf(holder, c.a.id) = Some(c.a.t)
                  /\ \A id \in others : TypeOf(holder, id) = TypeOf(pre, id)
                  /\ DOMAIN holder.db =
                        DOMAIN pre.db \cup {VertexManager_key(c.a.id)}
                  /\ OtherTrees(holder) = OtherTrees(pre)
            /\ c.op = "VertexManager_delete" =>
                  /\ TypeOf(holder, c.a.id) = None
                  /\ \A id \in others : TypeOf(holder, id) = TypeOf(pre, id)
            /\ c.op \notin {"VertexManager_create", "VertexManager_delete"} =>
                  holder.db = pre.db
            /\ c.op = "VertexManager_get" => c.out = TypeOf(holder, c.a.id)
            /\ c.op = "VertexManager_exists" =>
                  c.out = (TypeOf(holder, c.a.id) # None)

\* C14's case: create on a vertex that exists with another type and has a
\* property
C14_Witness ==
    /\ Completed("VertexManager_create")
    /\ TypeOf(pre, last[1].a.id) \notin {None, Some(last[1].a.t)}
    /\ \E name \in Names :
          VertexPropertyManager_key(last[1].a.id, name)
             \in DOMAIN holder.vertex_properties

(* -------------------------------- C15 ---------------------------------- *)

\* the property names of the callers of the property managers: a name and a
\* name it is a prefix of
PropNames == Names \cup {<<107, 107>>}

CallVertexPropertyGetNamed(p) ==
    \E id \in Uuids, name \in PropNames :
        Invoke(p, "VertexPropertyManager_get",
               [Idle EXCEPT !.pc = "vp_get", !.a.id = id, !.a.name = name])

CallVertexPropertySetNamed(p) ==
    \E id \in Uuids, name \in PropNames, value \in JsonValues :
        Invoke(p, "VertexPropertyManager_set",
               [Idle EXCEPT !.pc = "vp_set", !.a.id = id, !.a.name = name,
                            !.a.val = value])

CallVertexPropertyDeleteNamed(p) ==
    \E id \in Uuids, name \in PropNames :
        Invoke(p, "VertexPropertyManager_delete",
               [Idle EXCEPT !.pc = "vp_delete", !.a.id = id, !.a.name = name])

CallEdgePropertyGetNamed(p) ==
    \E o \in Uuids, t \in Types, i \in Uuids, name \in PropNames :
        Invoke(p, "EdgePropertyManager_get",
               [Idle EXCEPT !.pc = "ep_get", !.a.id = o, !.a.t = t,
                            !.a.id2 = i, !.a.name = name])

CallEdgePropertySetNamed(p) ==
    \E o \in Uuids, t \in Types, i \in Uuids, name \in PropNames,
       value \in JsonValues :
        Invoke(p, "EdgePropertyManager_set",
               [Idle EXCEPT !.pc = "ep_set", !.a.id = o, !.a.t = t,
                            !.a.id2 = i, !.a.name = name, !.a.val = value])

CallEdgePropertyDeleteNamed(p) ==
    \E o \in Uuids, t \in Types, i \in Uuids, name \in PropNames :
        Invoke(p, "EdgePropertyManager_delete",
               [Idle EXCEPT !.pc = "ep_delete", !.a.id = o, !.a.t = t,
                            !.a.id2 = i, !.a.name = name])

InitProps ==
    /\ holder = EmptyHolder
    /\ th = [p \in {1} |-> Idle]
    /\ pre = EmptyHolder
    /\ last = [p \in {1} |-> NoCall]
    /\ calls = MaxPropCalls
    /\ faults = 0
    /\ mismatched = FALSE
    /\ writer = 0

NextProps ==
    \/ CallVertexPropertyGetNamed(1)
    \/ CallVertexPropertySetNamed(1)
    \/ CallVertexPropertyDeleteNamed(1)
    \/ CallEdgePropertyGetNamed(1)
    \/ CallEdgePropertySetNamed(1)
    \/ CallEdgePropertyDeleteNamed(1)
    \/ VertexPropertyManager_get(1)
    \/ VertexPropertyManager_set(1)
    \/ VertexPropertyManager_delete(1)
    \/ EdgePropertyManager_get(1)
    \/ EdgePropertyManager_set(1)
    \/ EdgePropertyManager_delete(1)

\* one caller of the two property managers
SpecProps == InitProps /\ [][NextProps]_vars

\* the value the store h holds for a vertex property, if any
VertexPropertyOf(h, id, name) ==
    IF VertexPropertyManager_key(id, name) \in DOMAIN h.vertex_properties
    THEN Some(from_slice(
            h.vertex_properties[VertexPropertyManager_key(id, name)]))
    ELSE None

\* the value the store h holds for an edge property, if any
EdgePropertyOf(h, o, t, i, name) ==
    IF EdgePropertyManager_key(o, t, i, name) \in DOMAIN h.edge_properties
    THEN Some(from_slice(
            h.edge_properties[EdgePropertyManager_key(o, t, i, name)]))
    ELSE None

\* the vertex properties other than (id, name) have in h2 the values they
\* have in h1, and the tree has no other row
VertexPropertiesKept(h1, h2, id, name) ==
    /\ \A id1 \in Uuids, name1 \in PropNames :
          <<id1, name1>> # <<id, name>> =>
             VertexPropertyOf(h2, id1, name1) = VertexPropertyOf(h1, id1, name1)
    /\ DOMAIN h2.vertex_properties \ {VertexPropertyManager_key(id, name)} =
          DOMAIN h1.vertex_properties \ {VertexPropertyManager_key(id, name)}

\* the same for the edge properties other than (o, t, i, name)
EdgePropertiesKept(h1, h2, o, t, i, name) ==
    /\ \A o1 \in Uuids, t1 \in Types, i1 \in Uuids, name1 \in PropNames :
          <<o1, t1, i1, name1>> # <<o, t, i, name>> =>
             EdgePropertyOf(h2, o1, t1, i1, name1) =
                EdgePropertyOf(h1, o1, t1, i1, name1)
    /\ DOMAIN h2.edge_properties \ {EdgePropertyManager_key(o, t, i, name)} =
          DOMAIN h1.edge_properties \ {EdgePropertyManager_key(o, t, i, name)}

\* C15: each property tree is a map from (owner, name) to values. A
\* completed set gives its (owner, name) the value, a completed delete
\* leaves it without one, each leaves every other (owner, name) and the
\* other property tree as they were, and get returns the value the tree
\* holds (so the value of the latest set that no delete followed, or None);
\* for VertexPropertyManager and for EdgePropertyManager.
C15_PropertyTreesAreMaps ==
    (Quiet /\ last[1].res = "Ok") =>
        LET c == last[1]
            a == last[1].a
        IN  /\ c.op = "VertexPropertyManager_set" =>
                  /\ VertexPropertyOf(holder, a.id, a.name) = Some(a.val)
                  /\ VertexPropertiesKept(pre, holder, a.id, a.name)
                  /\ holder.edge_properties = pre.edge_properties
            /\ c.op = "VertexPropertyManager_delete" =>
                  /\ VertexPropertyOf(holder, a.id, a.name) = None
                  /\ VertexPropertiesKept(pre, holder, a.id, a.name)
                  /\ holder.edge_properties = pre.edge_properties
            /\ c.op = "VertexPropertyManager_get" =>
                  /\ c.out = VertexPropertyOf(holder, a.id, a.name)
                  /\ holder = pre
            /\ c.op = "EdgePropertyManager_set" =>
                  /\ EdgePropertyOf(holder, a.id, a.t, a.id2, a.name)
                        = Some(a.val)
                  /\ EdgePropertiesKept(pre, holder, a.id, a.t, a.id2, a.name)
                  /\ holder.vertex_properties = pre.vertex_properties
            /\ c.op = "EdgePropertyManager_delete" =>
                  /\ EdgePropertyOf(holder, a.id, a.t, a.id2, a.name) = None
                  /\ EdgePropertiesKept(pre, holder, a.id, a.t, a.id2, a.name)
                  /\ holder.vertex_properties = pre.vertex_properties
            /\ c.op = "EdgePropertyManager_get" =>
                  /\ c.out = EdgePropertyOf(holder, a.id, a.t, a.id2, a.name)
                  /\ holder = pre

\* C15's case: a property was deleted while the same owner has a property
\* whose name the deleted name is a prefix of
C15_Witness ==
    /\ Completed("VertexPropertyManager_delete")
    /\ VertexPropertyOf(pre, last[1].a.id, last[1].a.name) # None
    /\ \E name \in PropNames :
          /\ name # last[1].a.name
          /\ starts_with(name, last[1].a.name)
          /\ VertexPropertyOf(holder, last[1].a.id, name) # None

(* -------------------------------- C16 ---------------------------------- *)

\* thread 1 has entered EdgeManager::set(o, t, i, d1) and thread 2
\* EdgeManager::delete(o, t, i, d0) on the same edge; the edge is absent or
\* stored with any datetime, with or without a property
InitSetDelete ==
    \E o \in Uuids, t \in Types, i \in Uuids, d1 \in DateTimes,
       d0 \in DateTimes, property \in BOOLEAN,
       prior \in {None} \cup {Some(d) : d \in PriorDateTimes} :
        /\ holder =
              IF property /\ prior # None
              THEN [StoreWithEdge(o, t, i, prior) EXCEPT
                      !.edge_properties = tree_insert(@,
                          EdgePropertyManager_key(o, t, i, <<107>>),
                          to_vec(7))]
              ELSE StoreWithEdge(o, t, i, prior)
        /\ pre = holder
        /\ th = [p \in {1, 2} |->
                    IF p = 1 THEN EdgeFrame("es_get", o, t, i, d1)
                    ELSE EdgeFrame("ed_remove", o, t, i, d0)]
        /\ last = [p \in {1, 2} |->
                    IF p = 1
                    THEN [NoCall EXCEPT !.op = "EdgeManager_set",
                            !.res = "Running",
                            !.a = EdgeFrame("es_get", o, t, i, d1).a]
                    ELSE [NoCall EXCEPT !.op = "EdgeManager_delete",
                            !.res = "Running",
                            !.a = EdgeFrame("ed_remove", o, t, i, d0).a]]
        /\ calls = 0
        /\ faults = 0
        /\ mismatched = FALSE
        /\ writer = 0

NextSetDelete == EdgeSetStep(1) \/ EdgeDeleteStep(2)

\* a writer and a deleter of one edge, interleaved at single KV operations
SpecSetDelete == InitSetDelete /\ [][NextSetDelete]_vars

\* the race of C16 in its plainest form: the deleter is given the datetime
\* the edge is stored with (or the edge is absent), and the writer another
PlainSetDeleteRace ==
    /\ DOMAIN th = {1, 2}
    /\ last[1].op = "EdgeManager_set"
    /\ last[2].op = "EdgeManager_delete"
    /\ last[1].a.d # last[2].a.d
    /\ StoredDateTime(pre, last[1].a.id, last[1].a.t, last[1].a.id2)
          \in {None, Some(last[2].a.d)}

\* C16 as stated: once both calls have completed, either the edge row is
\* absent and no index row of the edge exists, or the edge row is present
\* and both index rows with its payload datetime exist.
C16_RaceEndsConsistent ==
    (Quiet /\ PlainSetDeleteRace) =>
        LET a == last[1].a
            stored == StoredDateTime(holder, a.id, a.t, a.id2)
        IN  IF stored = None
            THEN /\ ForwardRowsOfEdge(holder, a.id, a.t, a.id2) = {}
                 /\ ReversedRowsOfEdge(holder, a.id, a.t, a.id2) = {}
            ELSE /\ [first |-> a.id, t |-> a.t, d |-> unwrap(stored),
                      second |-> a.id2]
                       \in ForwardRowsOfEdge(holder, a.id, a.t, a.id2)
                 /\ [first |-> a.id2, t |-> a.t, d |-> unwrap(stored),
                      second |-> a.id]
                       \in ReversedRowsOfEdge(holder, a.id, a.t, a.id2)

\* C16, amended: once both calls have completed, every index row of the
\* edge carries the writer's datetime d1, and either the edge row holds d1
\* and both index rows with d1 exist, or the edge row is absent (and index
\* rows with d1 may have stayed behind).
C16_RaceLeavesOnlyWritersRows ==
    (Quiet /\ PlainSetDeleteRace) =>
        LET a == last[1].a
            stored == StoredDateTime(holder, a.id, a.t, a.id2)
            forward == [first |-> a.id, t |-> a.t, d |-> a.d, second |-> a.id2]
            reversed == [first |-> a.id2, t |-> a.t, d |-> a.d, second |-> a.id]
        IN  /\ ForwardRowsOfEdge(holder, a.id, a.t, a.id2) \subseteq {forward}
            /\ ReversedRowsOfEdge(holder, a.id, a.t, a.id2) \subseteq {reversed}
            /\ stored \in {None, Some(a.d)}
            /\ stored # None =>
                  /\ ForwardRowsOfEdge(holder, a.id, a.t, a.id2) = {forward}
                  /\ ReversedRowsOfEdge(holder, a.id, a.t, a.id2) = {reversed}

\* C16's case: the edge was stored, both calls have completed, the edge row
\* is absent and an index row of the writer has stayed behind
C16_Witness ==
    /\ Quiet
    /\ PlainSetDeleteRace
    /\ StoredDateTime(pre, last[1].a.id, last[1].a.t, last[1].a.id2) # None
    /\ StoredDateTime(holder, last[1].a.id, last[1].a.t, last[1].a.id2) = None
    /\ ForwardRowsOfEdge(holder, last[1].a.id, last[1].a.t, last[1].a.id2)
          # {}

(* -------------------------------- C17 ---------------------------------- *)

\* the KV writes of EdgeManager::set(o, t, i, d) on the store h, in the
\* order of lines 172-183: the two old index rows when the edge is stored,
\* then the payload and the two new index rows
WritesOfSet(h, o, t, i, d) ==
    LET update_datetime == StoredDateTime(h, o, t, i)
        old == IF update_datetime = None THEN <<>>
               ELSE <<[tree |-> "edge_ranges", insert |-> FALSE,
                       key |-> EdgeRangeManager_key(
                                  o, t, unwrap(update_datetime), i),
                       value |-> <<>>],
                      [tree |-> "reversed_edge_ranges", insert |-> FALSE,
                       key |-> EdgeRangeManager_key(
                                  i, t, unwrap(update_datetime), o),
                       value |-> <<>>]>>
    IN  old \o
        <<[tree |-> "edges", insert |-> TRUE, key |-> EdgeManager_key(o, t, i),
           value |-> build(<<ComponentDateTime(d)>>)],
          [tree |-> "edge_ranges", insert |-> TRUE,
           key |-> EdgeRangeManager_key(o, t, d, i), value |-> <<>>],
          [tree |-> "reversed_edge_ranges", insert |-> TRUE,
           key |-> EdgeRangeManager_key(i, t, d, o), value |-> <<>>]>>

\* the store h after the first n of the writes
RECURSIVE AfterWrites(_, _, _)
AfterWrites(h, writes, n) ==
    IF n = 0 THEN h
    ELSE LET before == AfterWrites(h, writes, n - 1)
             w == writes[n]
         IN  [before EXCEPT ![w.tree] =
                 IF w.insert THEN tree_insert(@, w.key, w.value)
                 ELSE tree_remove(@, w.key)]

\* the dangling index rows of the edge (o, t, i) in h: the rows of the edge
\* whose payload is absent or has another datetime
DanglingRows(h, o, t, i) ==
    {r \in ForwardRowsOfEdge(h, o, t, i) \cup ReversedRowsOfEdge(h, o, t, i) :
        StoredDateTime(h, o, t, i) # Some(r.d)}

\* C17 as stated: an EdgeManager::set stopped between two of its KV writes
\* can leave a dangling index row. When set is entered for an edge that a
\* store with an exact index holds with another datetime, the store after
\* some but not all of the writes of set holds a dangling row of the edge.
C17_StoppedSetCanLeaveDanglingRow ==
    (/\ th[1].pc = "es_get"
     /\ IndexExact(holder)
     /\ StoredDateTime(holder, th[1].e.o, th[1].e.t, th[1].e.i)
           \notin {None, Some(th[1].e.d)})
    => LET e == th[1].e
           writes == WritesOfSet(holder, e.o, e.t, e.i, e.d)
       IN  \E n \in 1..(Len(writes) - 1) :
              DanglingRows(AfterWrites(holder, writes, n), e.o, e.t, e.i) # {}

\* C17, amended: an EdgeManager::set that began on a store with an exact
\* index and was stopped (by a crash or a KV error) leaves the store as it
\* is after some but not all of its writes, and no such store holds a
\* dangling index row of the edge: every index row of the edge that is left
\* carries the datetime of the payload. What can be left is a payload
\* without its forward or reversed row.
C17_StoppedSetLeavesNoDanglingRow ==
    (/\ th[1].pc = "idle"
     /\ last[1].op = "EdgeManager_set"
     /\ last[1].res \in {"Crashed", "Err"}
     /\ ~last[1].retry
     /\ IndexExact(pre))
    => LET a == last[1].a
           writes == WritesOfSet(pre, a.id, a.t, a.id2, a.d)
       IN  /\ \E n \in 0..(Len(writes) - 1) :
                 holder = AfterWrites(pre, writes, n)
           /\ DanglingRows(holder, a.id, a.t, a.id2) = {}

\* C17's case: the edge was stored with another datetime, and the set was
\* stopped between the inserts of its two new index rows
C17_Witness ==
    /\ th[1].pc = "idle"
    /\ last[1].op = "EdgeManager_set"
    /\ last[1].res = "Crashed"
    /\ ~last[1].retry
    /\ IndexExact(pre)
    /\ StoredDateTime(pre, last[1].a.id, last[1].a.t, last[1].a.id2)
          \notin {None, Some(last[1].a.d)}
    /\ StoredDateTime(holder, last[1].a.id, last[1].a.t, last[1].a.id2)
          = Some(last[1].a.d)
    /\ ForwardRowsOfEdge(holder, last[1].a.id, last[1].a.t, last[1].a.id2)
          # {}
    /\ ReversedRowsOfEdge(holder, last[1].a.id, last[1].a.t, last[1].a.id2)
          = {}

(* -------------------------------- C18 ---------------------------------- *)

\* the rows of the tree whose keys satisfy keep
RowsWhere(tree, keep(_)) ==
    [k \in {k1 \in DOMAIN tree : keep(k1)} |-> tree[k]]

\* the rows of the store h that do not reference the vertex v: that have v
\* as no component of their key
RowsNotReferencing(h, v) ==
    [db |-> RowsWhere(h.db, LAMBDA k : read_uuid(k, 1) # v),
     edges |-> RowsWhere(h.edges, LAMBDA k :
        v \notin {read_uuid(k, 1), read_uuid(k, Len(k) - UuidLen + 1)}),
     edge_ranges |-> RowsWhere(h.edge_ranges, LAMBDA k :
        v \notin {EdgeRangeItem(k).first, EdgeRangeItem(k).second}),
     reversed_edge_ranges |-> RowsWhere(h.reversed_edge_ranges, LAMBDA k :
        v \notin {EdgeRangeItem(k).first, EdgeRangeItem(k).second}),
     vertex_properties |-> RowsWhere(h.vertex_properties, LAMBDA k :
        OwnedPropertyItem(k).owner # v),
     edge_properties |-> RowsWhere(h.edge_properties, LAMBDA k :
        v \notin {EdgePropertyItem(k).o, EdgePropertyItem(k).i})]

\* C18: a completed VertexManager::delete(v) leaves every row that does not
\* reference v as it was: the other vertex rows, the vertex properties of
\* other vertices, and the edge rows, index rows and edge properties of the
\* edges whose endpoints both differ from v.
C18_DeleteKeepsOtherRows ==
    Completed("VertexManager_delete") =>
        RowsNotReferencing(holder, last[1].a.id)
           = RowsNotReferencing(pre, last[1].a.id)

\* C18's case: the deleted vertex had an edge with another vertex, which
\* has an edge of its own and stays
C18_Witness ==
    /\ Completed("VertexManager_delete")
    /\ holder # pre
    /\ \E e \in EdgesOf(pre) :
          last[1].a.id \in {e.o, e.i} /\ {e.o, e.i} # {last[1].a.id}
    /\ \E e \in EdgesOf(holder) : last[1].a.id \notin {e.o, e.i}
    /\ RowsNotReferencing(holder, last[1].a.id).edge_ranges # EmptyTree

(* -------------------------------- C19 ---------------------------------- *)

\* what the store h holds for the edge (o, t, i): its payload datetime, its
\* rows in the two index trees and its properties
HeldForEdge(h, o, t, i) ==
    [payload |-> StoredDateTime(h, o, t, i),
     forward |-> ForwardRowsOfEdge(h, o, t, i),
     reversed |-> ReversedRowsOfEdge(h, o, t, i),
     properties |-> [name \in Names |-> EdgePropertyOf(h, o, t, i, name)]]

\* C19: a completed EdgeManager::set(o, t, i, _) or
\* EdgeManager::delete(o, t, i, _) leaves the edge row, both index rows and
\* every property of each edge (o, t1, i) of another type t1 as they were,
\* also when t is a prefix of t1.
C19_OtherTypesKept ==
    (Completed("EdgeManager_set") \/ Completed("EdgeManager_delete")) =>
        \A t1 \in Types \ {last[1].a.t} :
            HeldForEdge(holder, last[1].a.id, t1, last[1].a.id2)
               = HeldForEdge(pre, last[1].a.id, t1, last[1].a.id2)

\* C19's case: the edge (o, t, i) was deleted with a property, while the
\* edge (o, t1, i) of a type t1 that t is a prefix of has a property
C19_Witness ==
    /\ Completed("EdgeManager_delete")
    /\ \E name \in Names :
          EdgePropertyOf(pre, last[1].a.id, last[1].a.t, last[1].a.id2, name)
             # None
    /\ \E t1 \in Types \ {last[1].a.t}, name \in Names :
          /\ starts_with(t1, last[1].a.t)
          /\ EdgePropertyOf(holder, last[1].a.id, t1, last[1].a.id2, name)
                # None

====
